---- MODULE Spec2Model ----
(***************************************************************************)
(* Seat booking over SQLite: the POST /book transaction, the seat          *)
(* availability query and the admin session insert of the cinema backend.  *)
(*                                                                         *)
(* The repository holds three generations of the server: src/server.js,    *)
(* src/server.ts and src/unnamed/part_000 (part_001 is part_000 compiled). *)
(* They share the schema and the BEGIN / INSERT / COMMIT / ROLLBACK        *)
(* skeleton of POST /book and differ in BookingSchema, in the success      *)
(* response and in the catch block.  The variable build says which one     *)
(* runs.                                                                   *)
(*                                                                         *)
(* Every request opens its own connection (openDb).  The store is SQLite   *)
(* in its default rollback-journal mode: BEGIN TRANSACTION is deferred and *)
(* takes no lock, the first INSERT of a transaction takes the single       *)
(* RESERVED (writer) lock, uncommitted rows live in the writer's page      *)
(* cache and are invisible to other connections, and a statement that      *)
(* cannot get the lock before the busy timeout fails with SQLITE_BUSY.     *)
(* Foreign keys are declared in the schema; no PRAGMA foreign_keys is      *)
(* issued, so SQLite does not enforce them.                                *)
(***************************************************************************)
EXTENDS Integers, Sequences, FiniteSets, TLC

\* ------------------------------------------------------------- bounds
MaxReq == 2          \* POST /book calls in one behaviour
MaxSeats == 2        \* longest seats array of a request
MaxFaults == 1       \* store statements that fail for an infrastructure reason

Seats == {<<"A", "1">>, <<"A", "2">>}      \* seat labels, as character sequences
Builds == {"server.js", "server.ts", "part_000"}
Requests == 1..MaxReq

RECURSIVE SeqsUpTo(_, _)
SeqsUpTo(S, n) ==
    IF n = 0 THEN {<<>>}
    ELSE LET shorter == SeqsUpTo(S, n - 1)
         IN  shorter \cup {Append(q, x) : q \in shorter, x \in S}

Range(q) == {q[i] : i \in 1..Len(q)}
Distinct(q) == \A i, j \in 1..Len(q) : q[i] = q[j] => i = j

\* ------------------------------------------------------------- values
\* A JSON scalar of a request body: its type, and its value as a number or as
\* a string (a sequence of characters).
Num(n) == [t |-> "number", n |-> n, s |-> <<>>]
Str(s) == [t |-> "string", n |-> 0, s |-> s]
Undefined == [t |-> "undefined", n |-> 0, s |-> <<>>]

GoodName == <<"A">>
GoodEmail == <<"a", "@", "x", ".", "c", "o">>
GoodPhone == <<"1", "2", "3", "4", "5", "6", "7", "8">>

\* ------------------------------------------------------------- schema
\* The rows of the four tables (initializeDb).  A sessions row keeps the
\* columns the constraints and the joins read.
MaxSessions == 2     \* rows the sessions table may hold
SessionIds == 1..MaxSessions
MovieIds == {1}
Halls == {1}
Dates == {"2025-01-01"}
Times == {"10:00", "12:00"}

\* sqlite_sequence: the AUTOINCREMENT counters; part of the database, so a
\* rolled back transaction rolls them back as well.
NoSequence == [sessions |-> 0, bookings |-> 0, booking_seats |-> 0]

\* The schema without the UNIQUE(session_id, seat) constraint.
SeatNeverTaken(rows, session_id, seat) == FALSE

\* The constraint declared on session_id alone.
SeatTakenBySession(rows, session_id, seat) ==
    \E row \in rows : row.session_id = session_id

\* UNIQUE(session_id, seat) of booking_seats.
SeatTaken(rows, session_id, seat) ==
    \E row \in rows : row.session_id = session_id /\ row.seat = seat

\* The sessions table without its UNIQUE(hall_no, date, time) constraint.
SlotNeverTaken(rows, hall_no, date, time) == FALSE

\* UNIQUE(hall_no, date, time) of sessions.
SlotTaken(rows, hall_no, date, time) ==
    \E row \in rows : row.hall_no = hall_no /\ row.date = date /\ row.time = time

\* ------------------------------------------------------------- validation
\* zod's email check, on the characters the model uses: one "@", a local
\* part that neither is empty nor starts or ends with a dot, and a domain
\* of non-empty labels whose last one has two characters or more.
IsEmail(s) ==
    \E p \in 2..Len(s) :
        /\ s[p] = "@"
        /\ \A k \in 1..Len(s) : s[k] = "@" => k = p
        /\ s[1] # "."
        /\ s[p - 1] # "."
        /\ s[p + 1] # "."
        /\ \A k \in (p + 1)..(Len(s) - 1) : ~(s[k] = "." /\ s[k + 1] = ".")
        /\ \E d \in (p + 2)..(Len(s) - 2) :
               s[d] = "." /\ \A k \in (d + 1)..Len(s) : s[k] # "."

IsStringMin(v, n) == v.t = "string" /\ Len(v.s) >= n
IsNumberMin(v, n) == v.t = "number" /\ v.n >= n

\* BookingSchema.parse: the set of fields with an issue (empty: accepted).
BookingSchemaJs(b) ==
       {f \in {"session_id"} : ~IsNumberMin(b.session_id, 1)}
  \cup {f \in {"name"} : ~IsStringMin(b.name, 1)}
  \cup {f \in {"email"} : ~(b.email.t = "string" /\ IsEmail(b.email.s))}
  \cup {f \in {"phone_number"} : ~(b.phone_number.t = "string" /\ Len(b.phone_number.s) = 8)}
  \cup {f \in {"seats"} : Len(b.seats) < 1 \/ \E i \in 1..Len(b.seats) : Len(b.seats[i]) < 1}

BookingSchemaTs(b) ==
       {f \in {"session_id"} : ~IsNumberMin(b.session_id, 1)}
  \cup {f \in {"name"} : ~IsStringMin(b.name, 1)}
  \cup {f \in {"email"} : ~(b.email.t = "string" /\ IsEmail(b.email.s))}
  \cup {f \in {"phone_number"} : ~IsStringMin(b.phone_number, 1)}
  \cup {f \in {"seats"} : \E i \in 1..Len(b.seats) : Len(b.seats[i]) < 1}

BookingSchemaPart0(b) ==
       {f \in {"session_id"} : b.session_id.t # "number"}
  \cup {f \in {"name"} : b.name.t # "string"}
  \cup {f \in {"email"} : ~(b.email.t = "string" /\ IsEmail(b.email.s))}
  \cup {f \in {"phone_number"} : b.phone_number.t # "string"}

BookingSchema(bld, b) ==
    CASE bld = "server.js" -> BookingSchemaJs(b)
      [] bld = "server.ts" -> BookingSchemaTs(b)
      [] OTHER -> BookingSchemaPart0(b)

\* ------------------------------------------------------------- request bodies
GoodBody(session_id, seats) ==
    [session_id |-> Num(session_id), name |-> Str(GoodName), email |-> Str(GoodEmail),
     phone_number |-> Str(GoodPhone), seats |-> seats]

BadBodies ==
    LET g == GoodBody(1, <<<<"A", "1">>>>)
    IN  { [g EXCEPT !.name = Str(<<>>)],
          [g EXCEPT !.email = Str(<<"a", "x">>)],
          [g EXCEPT !.phone_number = Str(<<"1", "2">>)],
          [g EXCEPT !.session_id = Num(0)],
          [g EXCEPT !.session_id = Str(<<"1">>)],
          [g EXCEPT !.name = Undefined] }

Bodies ==
    {GoodBody(s, q) : s \in SessionIds, q \in SeqsUpTo(Seats, MaxSeats)} \cup BadBodies

\* ------------------------------------------------------------- errors and responses
\* What a rejected promise carries: a ZodError has issues, an error of the
\* sqlite3 driver has a code and a message (the message as its words).
\* A word of a message: a string of characters, kept whole.
W(w) == <<w>>

ZodError(issues) ==
    [name |-> "ZodError", code |-> "", message |-> <<>>, issues |-> issues]
SqliteError(code, message) ==
    [name |-> "Error", code |-> code, message |-> message, issues |-> {}]

ConstraintError ==
    SqliteError("SQLITE_CONSTRAINT",
                <<W("SQLITE_CONSTRAINT:"), W("UNIQUE"), W("constraint"), W("failed:"),
                  W("booking_seats.session_id,"), W("booking_seats.seat")>>)
SlotConstraintError ==
    SqliteError("SQLITE_CONSTRAINT",
                <<W("SQLITE_CONSTRAINT:"), W("UNIQUE"), W("constraint"), W("failed:"),
                  W("sessions.hall_no,"), W("sessions.date,"), W("sessions.time")>>)
BusyError ==
    SqliteError("SQLITE_BUSY", <<W("SQLITE_BUSY:"), W("database"), W("is"), W("locked")>>)
IoError ==
    SqliteError("SQLITE_IOERR", <<W("SQLITE_IOERR:"), W("disk"), W("I/O"), W("error")>>)
NoError == SqliteError("", <<>>)

NoSummary ==
    [booking_id |-> 0, name |-> <<>>, email |-> <<>>, phone_number |-> <<>>,
     session_id |-> 0, seats |-> <<>>]
NoDetails == [text |-> <<>>, code |-> "", issues |-> {}]

\* An HTTP response: the status and the JSON body's fields.  details is what
\* the body's details field lets the caller read: the words of a message
\* string, an error code field, a list of validation issues.
Response(status, success, error, details, summary) ==
    [status |-> status, success |-> success, error |-> error,
     details |-> details, bookingSummary |-> summary]
NoResponse == Response(0, FALSE, "", NoDetails, NoSummary)

\* handleDbError: status 500, details: error.message.
handleDbError(error, errorMessage) ==
    Response(500, FALSE, errorMessage,
             [text |-> error.message, code |-> "", issues |-> error.issues],
             NoSummary)

\* The response of the catch block of POST /book.
BookCatchJs(error) ==
    IF error.name = "ZodError"
    THEN Response(400, FALSE, "Validation failed",
                  [text |-> <<>>, code |-> "", issues |-> error.issues], NoSummary)
    ELSE handleDbError(error, "Failed to book seats")

BookCatchTs(error) == handleDbError(error, "Failed to book seats")

\* details: error serialises the error's own enumerable fields: errno and
\* code of a driver error, issues of a ZodError; not the message.
BookCatchPart0(error) ==
    Response(400, FALSE, "Failed to book seats",
             [text |-> <<>>, code |-> error.code, issues |-> error.issues], NoSummary)

BookCatch(bld, error) ==
    CASE bld = "server.js" -> BookCatchJs(error)
      [] bld = "server.ts" -> BookCatchTs(error)
      [] OTHER -> BookCatchPart0(error)

\* ------------------------------------------------------------- state
VARIABLES
    build,               \* which generation of the server runs
    movies, sessions,    \* committed rows of the tables
    bookings, booking_seats,
    sqlite_sequence,     \* committed AUTOINCREMENT counters
    wlock,               \* the POST /book call whose connection holds the RESERVED lock, or 0
    cache,               \* the uncommitted tables of that connection
    pc,                  \* where each POST /book call stands
    body,                \* its req.body
    transactionActive,   \* its transactionActive flag
    bookingId,           \* its lastID of the bookings insert
    seatIx,              \* the index of the seat its loop inserts next
    error,               \* the error its catch block received
    bookedDetails,       \* the row its post-commit read returned
    res,                 \* the response it sent
    get,                 \* the GET /sessions/:id/seats call
    verify,              \* the GET /verify-booking/:bookingId call
    adminRes,            \* the response of the last admin call
    faults,              \* store statements that failed for an infrastructure reason
    began, committed,    \* history: BEGIN TRANSACTION was issued; COMMIT succeeded
    faulted,             \* history: an infrastructure failure hit the call
    conc,                \* history: the calls that were open while this one ran
    pre,                 \* history: the seats claimed on its session when it arrived
    rolledBack           \* history: its ROLLBACK succeeded

tables == <<movies, sessions, bookings, booking_seats, sqlite_sequence>>
locks == <<wlock, cache>>
locals == <<transactionActive, bookingId, seatIx, error, bookedDetails>>
history == <<began, committed, conc, pre, rolledBack>>
vars == <<build, tables, locks, pc, body, locals, res, get, verify, adminRes, faults,
          faulted, history>>

NoCache == [bookings |-> {}, booking_seats |-> {}, sqlite_sequence |-> NoSequence]
NoBody ==
    [session_id |-> Undefined, name |-> Undefined, email |-> Undefined,
     phone_number |-> Undefined, seats |-> <<>>]
NoRow ==
    [id |-> 0, session_id |-> 0, name |-> <<>>, email |-> <<>>, phone_number |-> <<>>]
NoSession == [id |-> 0, movie_id |-> 0, hall_no |-> 0, date |-> "", time |-> ""]
NoGetResponse ==
    [status |-> 0, error |-> "", seats |-> {}, rows |-> 0,
     sessionDetails |-> NoSession, movieDetails |-> 0]
NoGet ==
    [pc |-> "idle", id |-> 0, seats |-> {}, rows |-> 0, sessionDetails |-> NoSession,
     res |-> NoGetResponse, after |-> 0, faulted |-> FALSE, dirty |-> FALSE]
NoPre == [seats |-> {}, known |-> FALSE]
NoVerified ==
    [id |-> 0, name |-> <<>>, email |-> <<>>, phone_number |-> <<>>, seats |-> <<>>,
     session |-> NoSession, movie |-> 0]
NoVerifyResponse == [status |-> 0, error |-> "", booking |-> NoVerified]
NoVerify ==
    [pc |-> "idle", bookingId |-> 0, bookingDetails |-> NoRow, sessionDetails |-> NoSession,
     res |-> NoVerifyResponse, after |-> {}, faulted |-> FALSE]

\* The seats claimed on a session: SELECT seat FROM booking_seats WHERE session_id = ?
SeatRows(rows, session_id) == {row \in rows : row.session_id = session_id}
ClaimedSeats(rows, session_id) == {row.seat : row \in SeatRows(rows, session_id)}

\* A result set in rowid order, as a table scan returns it.
RECURSIVE RowsById(_)
RowsById(rows) ==
    IF rows = {} THEN <<>>
    ELSE LET first == CHOOSE x \in rows : \A y \in rows : x.id <= y.id
         IN  <<first>> \o RowsById(rows \ {first})

InFlight(r) == pc[r] \notin {"idle", "done"}
\* Calls arrive in the order of their numbers: the one that arrived last, or 0.
LastArrived == Cardinality({q \in Requests : pc[q] # "idle"})
Outcomes == IF faults < MaxFaults THEN {"ok", "fail"} ELSE {"ok"}

\* The database file outlives the process (CREATE TABLE IF NOT EXISTS): the
\* server starts on a file that holds one movie and one session of it.
Setup ==
    /\ build \in Builds
    /\ movies = {[id |-> 1]}
    /\ sessions = {[id |-> 1, movie_id |-> 1, hall_no |-> 1, date |-> "2025-01-01",
                    time |-> "10:00"]}
    /\ bookings = {}
    /\ booking_seats = {}
    /\ sqlite_sequence = [NoSequence EXCEPT !.sessions = 1]
    /\ wlock = 0
    /\ cache = NoCache
    /\ pc = [r \in Requests |-> "idle"]
    /\ body = [r \in Requests |-> NoBody]
    /\ transactionActive = [r \in Requests |-> FALSE]
    /\ bookingId = [r \in Requests |-> 0]
    /\ seatIx = [r \in Requests |-> 0]
    /\ error = [r \in Requests |-> NoError]
    /\ bookedDetails = [r \in Requests |-> NoRow]
    /\ res = [r \in Requests |-> NoResponse]
    /\ get = NoGet
    /\ verify = NoVerify
    /\ adminRes = [status |-> 0, id |-> 0]
    /\ began = [r \in Requests |-> FALSE]
    /\ committed = [r \in Requests |-> FALSE]
    /\ faulted = [r \in Requests |-> FALSE]
    /\ conc = [r \in Requests |-> {}]
    /\ pre = [r \in Requests |-> NoPre]
    /\ rolledBack = [r \in Requests |-> FALSE]

\* ------------------------------------------------------------- POST /book
\* The call sends `response` and ends.
Respond(r, response) ==
    /\ res' = [res EXCEPT ![r] = response]
    /\ pc' = [pc EXCEPT ![r] = "done"]

\* The catch block answering before it looks at the transaction flag.
CatchAnswersFirst(r, e) ==
    /\ error' = [error EXCEPT ![r] = e]
    /\ Respond(r, BookCatch(build, e))

\* catch (error): with the transaction flag set the handler awaits ROLLBACK
\* first, otherwise it answers at once.
Catch(r, e) ==
    /\ error' = [error EXCEPT ![r] = e]
    /\ IF transactionActive[r]
       THEN /\ pc' = [pc EXCEPT ![r] = "rollback"]
            /\ UNCHANGED res
       ELSE Respond(r, BookCatch(build, e))

\* A statement of call r fails for an infrastructure reason.
Fault(r) ==
    /\ faults < MaxFaults
    /\ faults' = faults + 1
    /\ faulted' = [faulted EXCEPT ![r] = TRUE]

\* The request arrives: history of who runs beside whom and of the seats
\* claimed on its session at that moment.
Arrive(r, b) ==
    /\ pc[r] = "idle"
    /\ \A q \in Requests : q < r => pc[q] # "idle"
    /\ body' = [body EXCEPT ![r] = b]
    /\ LET open == {q \in Requests : InFlight(q)}
       IN  conc' = [q \in Requests |->
                       IF q = r THEN open
                       ELSE IF q \in open THEN conc[q] \cup {r} ELSE conc[q]]
    /\ pre' = [pre EXCEPT ![r] =
                  [seats |-> ClaimedSeats(booking_seats, b.session_id.n),
                   known |-> \E s \in sessions : s.id = b.session_id.n]]
    /\ get' = IF get.pc \in {"idle", "done"} THEN get ELSE [get EXCEPT !.after = 0]

\* POST /book up to its first statement that touches the store.
\*   const db = await openDb() stands outside the try block: when it rejects,
\*     the handler's promise rejects and no response is ever sent;
\*   BookingSchema.parse(req.body) throws: the catch block answers, no
\*     statement was issued;
\*   BEGIN TRANSACTION (deferred: it takes no lock), transactionActive = true.
Book(r, b) ==
    /\ Arrive(r, b)
    /\ \/ /\ Fault(r)
          /\ pc' = [pc EXCEPT ![r] = "hung"]
          /\ UNCHANGED <<transactionActive, error, res, began>>
       \/ /\ BookingSchema(build, b) # {}
          /\ Catch(r, ZodError(BookingSchema(build, b)))
          /\ UNCHANGED <<transactionActive, faults, faulted, began>>
       \/ /\ BookingSchema(build, b) = {}
          /\ began' = [began EXCEPT ![r] = TRUE]
          /\ \/ /\ transactionActive' = [transactionActive EXCEPT ![r] = TRUE]
                /\ pc' = [pc EXCEPT ![r] = "insertBooking"]
                /\ UNCHANGED <<error, res, faults, faulted>>
             \/ /\ Fault(r)
                /\ Catch(r, IoError)
                /\ UNCHANGED transactionActive
    /\ UNCHANGED <<build, tables, locks, bookingId, seatIx, bookedDetails, adminRes, verify,
                   committed, rolledBack>>

\* INSERT INTO bookings: the transaction's first write takes the RESERVED
\* lock, or fails with SQLITE_BUSY when another connection still holds it at
\* the busy timeout.  Foreign keys are not enforced: any session_id inserts.
InsertBooking(r) ==
    /\ pc[r] = "insertBooking"
    /\ \/ /\ Fault(r)
          /\ Catch(r, IoError)
          /\ UNCHANGED <<locks, bookingId, seatIx>>
       \/ /\ wlock \notin {0, r}
          /\ Catch(r, BusyError)
          /\ UNCHANGED <<locks, bookingId, seatIx, faults, faulted>>
       \/ /\ wlock = 0
          /\ LET id == sqlite_sequence.bookings + 1
                 row == [id |-> id, session_id |-> body[r].session_id.n,
                         name |-> body[r].name.s, email |-> body[r].email.s,
                         phone_number |-> body[r].phone_number.s]
             IN  /\ cache' = [bookings |-> bookings \cup {row},
                              booking_seats |-> booking_seats,
                              sqlite_sequence |->
                                  [sqlite_sequence EXCEPT !.bookings = id]]
                 /\ bookingId' = [bookingId EXCEPT ![r] = id]
          /\ wlock' = r
          /\ seatIx' = [seatIx EXCEPT ![r] = 1]
          /\ pc' = [pc EXCEPT ![r] =
                       IF Len(body[r].seats) = 0 THEN "commit" ELSE "insertSeat"]
          /\ UNCHANGED <<error, res, faults, faulted>>
    /\ UNCHANGED <<build, tables, body, transactionActive, bookedDetails, get, adminRes, verify,
                   history>>

\* The seat insert with UNIQUE(session_id, seat) looking at the committed
\* rows only, not at the rows the transaction itself has inserted.
InsertSeatCommittedOnly(r) ==
    /\ pc[r] = "insertSeat"
    /\ LET seat == body[r].seats[seatIx[r]]
           session_id == body[r].session_id.n
           id == cache.sqlite_sequence.booking_seats + 1
       IN  \/ /\ SeatTaken(booking_seats, session_id, seat)
              /\ Catch(r, ConstraintError)
              /\ UNCHANGED <<cache, seatIx>>
           \/ /\ ~SeatTaken(booking_seats, session_id, seat)
              /\ cache' = [cache EXCEPT
                     !.booking_seats = @ \cup {[id |-> id, booking_id |-> bookingId[r],
                                                session_id |-> session_id, seat |-> seat]},
                     !.sqlite_sequence.booking_seats = id]
              /\ seatIx' = [seatIx EXCEPT ![r] = @ + 1]
              /\ pc' = [pc EXCEPT ![r] =
                           IF seatIx[r] = Len(body[r].seats) THEN "commit" ELSE "insertSeat"]
              /\ UNCHANGED <<error, res>>
    /\ UNCHANGED <<build, tables, wlock, body, transactionActive, bookingId,
                   bookedDetails, get, adminRes, verify, faults, faulted, history>>

\* INSERT INTO booking_seats for the next seat of the loop: UNIQUE(session_id,
\* seat) is checked against the committed rows and the transaction's own.
InsertSeat(r) ==
    /\ pc[r] = "insertSeat"
    /\ LET seat == body[r].seats[seatIx[r]]
           session_id == body[r].session_id.n
           id == cache.sqlite_sequence.booking_seats + 1
       IN  \/ /\ Fault(r)
              /\ Catch(r, IoError)
              /\ UNCHANGED <<cache, seatIx>>
           \/ /\ SeatTaken(cache.booking_seats, session_id, seat)
              /\ Catch(r, ConstraintError)
              /\ UNCHANGED <<cache, seatIx, faults, faulted>>
           \/ /\ ~SeatTaken(cache.booking_seats, session_id, seat)
              /\ cache' = [cache EXCEPT
                     !.booking_seats = @ \cup {[id |-> id, booking_id |-> bookingId[r],
                                                session_id |-> session_id, seat |-> seat]},
                     !.sqlite_sequence.booking_seats = id]
              /\ seatIx' = [seatIx EXCEPT ![r] = @ + 1]
              /\ pc' = [pc EXCEPT ![r] =
                           IF seatIx[r] = Len(body[r].seats) THEN "commit" ELSE "insertSeat"]
              /\ UNCHANGED <<error, res, faults, faulted>>
    /\ UNCHANGED <<build, tables, wlock, body, transactionActive, bookingId,
                   bookedDetails, get, adminRes, verify, history>>

\* res.json({ success: true }) of server.ts and part_000.
BookSuccess == Response(200, TRUE, "", NoDetails, NoSummary)

\* The handler without its transactionActive = false after COMMIT.
CommitKeepsFlag(r) ==
    /\ pc[r] = "commit"
    /\ bookings' = cache.bookings
    /\ booking_seats' = cache.booking_seats
    /\ sqlite_sequence' = cache.sqlite_sequence
    /\ wlock' = 0
    /\ cache' = NoCache
    /\ committed' = [committed EXCEPT ![r] = TRUE]
    /\ IF build = "server.js"
       THEN /\ pc' = [pc EXCEPT ![r] = "readBooking"]
            /\ UNCHANGED res
       ELSE Respond(r, BookSuccess)
    /\ UNCHANGED <<build, movies, sessions, body, locals, get, adminRes, verify, faults,
                   faulted, began, conc, pre, rolledBack>>

\* COMMIT: the transaction's rows and counters become the committed ones and
\* the lock is released; transactionActive = false.  server.ts and part_000
\* answer at once, server.js goes on to re-read the booking.
Commit(r) ==
    /\ pc[r] = "commit"
    /\ \/ /\ Fault(r)
          /\ Catch(r, IoError)
          /\ UNCHANGED <<tables, locks, transactionActive, committed>>
       \/ /\ bookings' = cache.bookings
          /\ booking_seats' = cache.booking_seats
          /\ sqlite_sequence' = cache.sqlite_sequence
          /\ wlock' = 0
          /\ cache' = NoCache
          /\ transactionActive' = [transactionActive EXCEPT ![r] = FALSE]
          /\ committed' = [committed EXCEPT ![r] = TRUE]
          /\ IF build = "server.js"
             THEN /\ pc' = [pc EXCEPT ![r] = "readBooking"]
                  /\ UNCHANGED res
             ELSE Respond(r, BookSuccess)
          /\ UNCHANGED <<movies, sessions, error, faults, faulted>>
    /\ UNCHANGED <<build, body, bookingId, seatIx, bookedDetails, get, adminRes, verify,
                   began, conc, pre, rolledBack>>

\* The re-read taking the newest bookings row instead of the row of lastID.
ReadBookingLatest(r) ==
    /\ pc[r] = "readBooking"
    /\ bookedDetails' = [bookedDetails EXCEPT ![r] =
           CHOOSE row \in bookings : \A other \in bookings : other.id <= row.id]
    /\ pc' = [pc EXCEPT ![r] = "readSeats"]
    /\ UNCHANGED <<build, tables, locks, body, transactionActive, bookingId, seatIx,
                   error, res, get, adminRes, verify, faults, faulted, history>>

\* server.js: SELECT ... FROM bookings WHERE id = ? after the commit.
ReadBooking(r) ==
    /\ pc[r] = "readBooking"
    /\ \/ /\ Fault(r)
          /\ Catch(r, IoError)
          /\ UNCHANGED bookedDetails
       \/ /\ bookedDetails' = [bookedDetails EXCEPT ![r] =
                 IF \E row \in bookings : row.id = bookingId[r]
                 THEN CHOOSE row \in bookings : row.id = bookingId[r]
                 ELSE NoRow]
          /\ pc' = [pc EXCEPT ![r] = "readSeats"]
          /\ UNCHANGED <<error, res, faults, faulted>>
    /\ UNCHANGED <<build, tables, locks, body, transactionActive, bookingId, seatIx,
                   get, adminRes, verify, history>>

TypeError == SqliteError("", <<W("Cannot"), W("read"), W("properties"), W("of"), W("undefined")>>)

\* server.js: SELECT seat FROM booking_seats WHERE booking_id = ? and the
\* success response with the booking summary.
ReadSeats(r) ==
    /\ pc[r] = "readSeats"
    /\ \/ /\ Fault(r)
          /\ Catch(r, IoError)
       \/ /\ bookedDetails[r] = NoRow
          /\ Catch(r, TypeError)
          /\ UNCHANGED <<faults, faulted>>
       \/ /\ bookedDetails[r] # NoRow
          /\ LET bookedSeats ==
                     RowsById({row \in booking_seats : row.booking_id = bookingId[r]})
                 d == bookedDetails[r]
             IN  Respond(r, Response(200, TRUE, "", NoDetails,
                     [booking_id |-> d.id, name |-> d.name, email |-> d.email,
                      phone_number |-> d.phone_number, session_id |-> d.session_id,
                      seats |-> [i \in 1..Len(bookedSeats) |-> bookedSeats[i].seat]]))
          /\ UNCHANGED <<error, faults, faulted>>
    /\ UNCHANGED <<build, tables, locks, body, transactionActive, bookingId, seatIx,
                   bookedDetails, get, adminRes, verify, history>>

\* The catch block issuing COMMIT where ROLLBACK belongs.
RollbackAsCommit(r) ==
    /\ pc[r] = "rollback"
    /\ IF wlock = r
       THEN /\ bookings' = cache.bookings
            /\ booking_seats' = cache.booking_seats
            /\ sqlite_sequence' = cache.sqlite_sequence
            /\ wlock' = 0
            /\ cache' = NoCache
       ELSE UNCHANGED <<bookings, booking_seats, sqlite_sequence, locks>>
    /\ Respond(r, BookCatch(build, error[r]))
    /\ UNCHANGED <<build, movies, sessions, body, locals, get, adminRes, verify, faults, faulted,
                   history>>

\* ROLLBACK undoing the bookings insert and leaving the seat rows behind.
RollbackKeepsSeats(r) ==
    /\ pc[r] = "rollback"
    /\ IF wlock = r
       THEN /\ booking_seats' = cache.booking_seats
            /\ wlock' = 0
            /\ cache' = NoCache
       ELSE UNCHANGED <<booking_seats, locks>>
    /\ rolledBack' = [rolledBack EXCEPT ![r] = TRUE]
    /\ Respond(r, BookCatch(build, error[r]))
    /\ UNCHANGED <<build, movies, sessions, bookings, sqlite_sequence, body, locals, get,
                   adminRes, verify, faults, faulted, began, committed, conc, pre>>

\* The catch block undoing by hand: it deletes the seat rows of the
\* request's session where ROLLBACK belongs.
RollbackByDelete(r) ==
    /\ pc[r] = "rollback"
    /\ booking_seats' = {row \in booking_seats : row.session_id # body[r].session_id.n}
    /\ IF wlock = r
       THEN wlock' = 0 /\ cache' = NoCache
       ELSE UNCHANGED locks
    /\ rolledBack' = [rolledBack EXCEPT ![r] = TRUE]
    /\ Respond(r, BookCatch(build, error[r]))
    /\ UNCHANGED <<build, movies, sessions, bookings, sqlite_sequence, body, locals, get,
                   adminRes, verify, faults, faulted, began, committed, conc, pre>>

\* await db.run('ROLLBACK') in the catch block, then the error response.  A
\* ROLLBACK that rejects leaves the catch block by an exception: nothing is
\* sent and the connection keeps what it held.
Rollback(r) ==
    /\ pc[r] = "rollback"
    /\ \/ /\ Fault(r)
          /\ pc' = [pc EXCEPT ![r] = "hung"]
          /\ UNCHANGED <<locks, res, rolledBack>>
       \/ /\ IF wlock = r
             THEN wlock' = 0 /\ cache' = NoCache
             ELSE UNCHANGED locks
          /\ rolledBack' = [rolledBack EXCEPT ![r] = TRUE]
          /\ Respond(r, BookCatch(build, error[r]))
          /\ UNCHANGED <<faults, faulted>>
    /\ UNCHANGED <<build, tables, body, locals, get, adminRes, verify, began, committed, conc,
                   pre>>

\* ------------------------------------------------------------- GET /sessions/:id/seats
GetResponse(status, err, seats, rows, sessionDetails, movieDetails) ==
    [status |-> status, error |-> err, seats |-> seats, rows |-> rows,
     sessionDetails |-> sessionDetails, movieDetails |-> movieDetails]
GetError(status, err) == GetResponse(status, err, {}, 0, NoSession, 0)

GetFault ==
    /\ faults < MaxFaults
    /\ faults' = faults + 1
    /\ get' = [get EXCEPT !.pc = "done", !.faulted = TRUE,
                          !.res = GetError(500, "Failed to fetch data")]

\* Uncommitted seat rows of the session exist in a writer's page cache.
Dirty(id) ==
    wlock # 0 /\ SeatRows(cache.booking_seats, id) # SeatRows(booking_seats, id)

\* The query reading the writer's uncommitted pages (read_uncommitted).
GetSeatsDirty(id) ==
    /\ get.pc \in {"idle", "done"}
    /\ LET rows == IF wlock # 0 THEN cache.booking_seats ELSE booking_seats
       IN  get' = [NoGet EXCEPT
                 !.pc = "session", !.id = id,
                 !.seats = ClaimedSeats(rows, id),
                 !.rows = Cardinality(SeatRows(rows, id)),
                 !.dirty = Dirty(id),
                 !.after = IF \E q \in Requests : InFlight(q) THEN 0 ELSE LastArrived]
    /\ UNCHANGED <<build, tables, locks, pc, body, locals, res, adminRes, verify, faults, faulted,
                   history>>

\* SELECT seat FROM booking_seats WHERE session_id = ?: the committed rows.
\* after names the POST /book call this query directly follows, if no call is
\* open; dirty says that uncommitted seat rows of the session existed.
GetSeats(id) ==
    /\ get.pc \in {"idle", "done"}
    /\ \/ /\ faults < MaxFaults
          /\ faults' = faults + 1
          /\ get' = [NoGet EXCEPT !.pc = "done", !.id = id, !.faulted = TRUE,
                                  !.res = GetError(500, "Failed to fetch data")]
       \/ /\ get' = [NoGet EXCEPT
                 !.pc = "session", !.id = id,
                 !.seats = ClaimedSeats(booking_seats, id),
                 !.rows = Cardinality(SeatRows(booking_seats, id)),
                 !.dirty = Dirty(id),
                 !.after = IF \E q \in Requests : InFlight(q) THEN 0 ELSE LastArrived]
          /\ UNCHANGED faults
    /\ UNCHANGED <<build, tables, locks, pc, body, locals, res, adminRes, verify, faulted,
                   history>>

\* SELECT * FROM sessions WHERE id = ?, 404 when there is none.
GetSession ==
    /\ get.pc = "session"
    /\ \/ GetFault
       \/ /\ get' = IF \E s \in sessions : s.id = get.id
                    THEN [get EXCEPT !.pc = "movie",
                              !.sessionDetails = CHOOSE s \in sessions : s.id = get.id]
                    ELSE [get EXCEPT !.pc = "done",
                              !.res = GetError(404, "Session not found")]
          /\ UNCHANGED faults
    /\ UNCHANGED <<build, tables, locks, pc, body, locals, res, adminRes, verify, faulted,
                   history>>

\* The handler without its if (!movieDetails) branch.
GetMovieUnchecked ==
    /\ get.pc = "movie"
    /\ get' = [get EXCEPT !.pc = "done", !.res =
                 GetResponse(200, "", get.seats, get.rows, get.sessionDetails,
                             get.sessionDetails.movie_id)]
    /\ UNCHANGED <<build, tables, locks, pc, body, locals, res, adminRes, verify, faults, faulted,
                   history>>

\* SELECT * FROM movies WHERE id = ?, 404 when there is none; else the answer.
GetMovie ==
    /\ get.pc = "movie"
    /\ \/ GetFault
       \/ /\ get' = [get EXCEPT !.pc = "done", !.res =
                 IF \E m \in movies : m.id = get.sessionDetails.movie_id
                 THEN GetResponse(200, "", get.seats, get.rows, get.sessionDetails,
                                  get.sessionDetails.movie_id)
                 ELSE GetError(404, "Movie not found")]
          /\ UNCHANGED faults
    /\ UNCHANGED <<build, tables, locks, pc, body, locals, res, adminRes, verify, faulted,
                   history>>

\* ------------------------------------------------------------- POST /admin/sessions
\* The catch blocks of the admin handlers: handleDbError (500) in server.js
\* and server.ts, status 400 in part_000.
AdminErrorStatus == IF build = "part_000" THEN 400 ELSE 500

\* One INSERT INTO sessions in autocommit mode.  It needs the write lock
\* (SQLITE_BUSY while a booking transaction holds it), UNIQUE(hall_no, date,
\* time) is enforced, the movie_id foreign key is not.
AdminAddSession(movie_id, hall_no, date, time) ==
    /\ Cardinality(sessions) < MaxSessions
    /\ \/ /\ wlock # 0
          /\ adminRes' = [status |-> AdminErrorStatus, id |-> 0]
          /\ UNCHANGED <<sessions, sqlite_sequence>>
       \/ /\ wlock = 0
          /\ SlotTaken(sessions, hall_no, date, time)
          /\ adminRes' = [status |-> AdminErrorStatus, id |-> 0]
          /\ UNCHANGED <<sessions, sqlite_sequence>>
       \/ /\ wlock = 0
          /\ ~SlotTaken(sessions, hall_no, date, time)
          /\ LET id == sqlite_sequence.sessions + 1
             IN  /\ sessions' = sessions \cup
                        {[id |-> id, movie_id |-> movie_id, hall_no |-> hall_no,
                          date |-> date, time |-> time]}
                 /\ sqlite_sequence' = [sqlite_sequence EXCEPT !.sessions = id]
                 /\ adminRes' = [status |-> 200, id |-> id]
    /\ UNCHANGED <<build, movies, bookings, booking_seats, locks, pc, body, locals, res,
                   get, verify, faults, faulted, history>>

\* ------------------------------------------------------------- PUT /admin/sessions/:id
\* One UPDATE sessions SET ... WHERE id = ? in autocommit mode.  It needs the
\* write lock; UNIQUE(hall_no, date, time) is checked against the other rows;
\* changes = 0 (no row has the id) is answered 404.
AdminUpdateSession(id, movie_id, hall_no, date, time) ==
    /\ LET old == {x \in sessions : x.id = id}
       IN  \/ /\ wlock # 0
              /\ adminRes' = [status |-> AdminErrorStatus, id |-> 0]
              /\ UNCHANGED sessions
           \/ /\ wlock = 0
              /\ old = {}
              /\ adminRes' = [status |-> 404, id |-> 0]
              /\ UNCHANGED sessions
           \/ /\ wlock = 0
              /\ old # {}
              /\ SlotTaken(sessions \ old, hall_no, date, time)
              /\ adminRes' = [status |-> AdminErrorStatus, id |-> 0]
              /\ UNCHANGED sessions
           \/ /\ wlock = 0
              /\ old # {}
              /\ ~SlotTaken(sessions \ old, hall_no, date, time)
              /\ sessions' = (sessions \ old) \cup
                     {[id |-> id, movie_id |-> movie_id, hall_no |-> hall_no,
                       date |-> date, time |-> time]}
              /\ adminRes' = [status |-> 200, id |-> id]
    /\ UNCHANGED <<build, movies, bookings, booking_seats, sqlite_sequence, locks, pc,
                   body, locals, res, get, verify, faults, faulted, history>>

\* ------------------------------------------------------------- GET /verify-booking/:bookingId
\* The route exists in server.js only.
\* BookingIdSchema: the parameter matches /^\d+$/ and is transformed by Number.
Digits == {"0", "1", "2", "3", "4", "5", "6", "7", "8", "9"}
DigitValue ==
    "0" :> 0 @@ "1" :> 1 @@ "2" :> 2 @@ "3" :> 3 @@ "4" :> 4 @@
    "5" :> 5 @@ "6" :> 6 @@ "7" :> 7 @@ "8" :> 8 @@ "9" :> 9
IsDigits(s) == Len(s) >= 1 /\ \A i \in 1..Len(s) : s[i] \in Digits
RECURSIVE Number(_)
Number(s) ==
    IF s = <<>> THEN 0
    ELSE 10 * Number(SubSeq(s, 1, Len(s) - 1)) + DigitValue[s[Len(s)]]

VerifyParams == {<<"1">>, <<"2">>, <<"0", "2">>, <<"x">>}

VerifyError(status, err) == [status |-> status, error |-> err, booking |-> NoVerified]

VerifyFault ==
    /\ faults < MaxFaults
    /\ faults' = faults + 1
    /\ verify' = [verify EXCEPT !.pc = "done", !.faulted = TRUE,
                                !.res = VerifyError(500, "Failed to verify booking")]

\* BookingIdSchema.parse(req.params), 400 on a ZodError, then openDb.  after
\* names the POST /book calls that were answered with success before.
Verify(param) ==
    /\ build = "server.js"
    /\ verify.pc \in {"idle", "done"}
    /\ \/ /\ ~IsDigits(param)
          /\ verify' = [NoVerify EXCEPT !.pc = "done",
                                        !.res = VerifyError(400, "Validation failed")]
          /\ UNCHANGED faults
       \/ /\ IsDigits(param)
          /\ \/ /\ faults < MaxFaults
                /\ faults' = faults + 1
                /\ verify' = [NoVerify EXCEPT !.pc = "done", !.faulted = TRUE,
                                 !.bookingId = Number(param),
                                 !.res = VerifyError(500, "Failed to verify booking")]
             \/ /\ verify' = [NoVerify EXCEPT !.pc = "booking",
                                 !.bookingId = Number(param),
                                 !.after = {r \in Requests :
                                               pc[r] = "done" /\ res[r].success}]
                /\ UNCHANGED faults
    /\ UNCHANGED <<build, tables, locks, pc, body, locals, res, get, adminRes, faulted,
                   history>>

\* SELECT * FROM bookings WHERE id = ?, 404 when there is none.
VerifyBooking ==
    /\ verify.pc = "booking"
    /\ \/ VerifyFault
       \/ /\ verify' = IF \E row \in bookings : row.id = verify.bookingId
                       THEN [verify EXCEPT !.pc = "session", !.bookingDetails =
                                CHOOSE row \in bookings : row.id = verify.bookingId]
                       ELSE [verify EXCEPT !.pc = "done",
                                !.res = VerifyError(404, "Booking not found")]
          /\ UNCHANGED faults
    /\ UNCHANGED <<build, tables, locks, pc, body, locals, res, get, adminRes, faulted,
                   history>>

\* SELECT * FROM sessions WHERE id = bookingDetails.session_id, 404 when there is none.
VerifySession ==
    /\ verify.pc = "session"
    /\ \/ VerifyFault
       \/ /\ verify' = IF \E x \in sessions : x.id = verify.bookingDetails.session_id
                       THEN [verify EXCEPT !.pc = "movie", !.sessionDetails =
                                CHOOSE x \in sessions :
                                    x.id = verify.bookingDetails.session_id]
                       ELSE [verify EXCEPT !.pc = "done",
                                !.res = VerifyError(404, "Session not found for this booking")]
          /\ UNCHANGED faults
    /\ UNCHANGED <<build, tables, locks, pc, body, locals, res, get, adminRes, faulted,
                   history>>

\* The handler without its if (!movieDetails) branch.
VerifyMovieUnchecked ==
    /\ verify.pc = "movie"
    /\ verify' = [verify EXCEPT !.pc = "seats"]
    /\ UNCHANGED <<build, tables, locks, pc, body, locals, res, get, adminRes, faults,
                   faulted, history>>

\* SELECT * FROM movies WHERE id = sessionDetails.movie_id, 404 when there is none.
VerifyMovie ==
    /\ verify.pc = "movie"
    /\ \/ VerifyFault
       \/ /\ verify' = IF \E m \in movies : m.id = verify.sessionDetails.movie_id
                       THEN [verify EXCEPT !.pc = "seats"]
                       ELSE [verify EXCEPT !.pc = "done",
                                !.res = VerifyError(404, "Movie not found for this session")]
          /\ UNCHANGED faults
    /\ UNCHANGED <<build, tables, locks, pc, body, locals, res, get, adminRes, faulted,
                   history>>

\* SELECT seat FROM booking_seats WHERE booking_id = ? and the answer.
VerifySeats ==
    /\ verify.pc = "seats"
    /\ \/ VerifyFault
       \/ /\ LET bookedSeats ==
                     RowsById({row \in booking_seats : row.booking_id = verify.bookingId})
                 d == verify.bookingDetails
             IN  verify' = [verify EXCEPT !.pc = "done", !.res =
                     [status |-> 200, error |-> "", booking |->
                         [id |-> d.id, name |-> d.name, email |-> d.email,
                          phone_number |-> d.phone_number,
                          seats |-> [i \in 1..Len(bookedSeats) |-> bookedSeats[i].seat],
                          session |-> verify.sessionDetails,
                          movie |-> verify.sessionDetails.movie_id]]]
          /\ UNCHANGED faults
    /\ UNCHANGED <<build, tables, locks, pc, body, locals, res, get, adminRes, faulted,
                   history>>

\* ------------------------------------------------------------- behaviours
BookNext ==
    \/ \E r \in Requests, b \in Bodies : Book(r, b)
    \/ \E r \in Requests : InsertBooking(r)
    \/ \E r \in Requests : InsertSeat(r)
    \/ \E r \in Requests : Commit(r)
    \/ \E r \in Requests : ReadBooking(r)
    \/ \E r \in Requests : ReadSeats(r)
    \/ \E r \in Requests : Rollback(r)

AdminNext ==
    \E m \in MovieIds \cup {2}, h \in Halls, d \in Dates, t \in Times :
        AdminAddSession(m, h, d, t)

GetNext ==
    \/ \E id \in SessionIds : GetSeats(id)
    \/ GetSession
    \/ GetMovie

AdminUpdateNext ==
    \E id \in SessionIds, m \in MovieIds, h \in Halls, d \in Dates, t \in Times :
        AdminUpdateSession(id, m, h, d, t)

VerifyNext ==
    \/ \E param \in VerifyParams : Verify(param)
    \/ VerifyBooking
    \/ VerifySession
    \/ VerifyMovie
    \/ VerifySeats

\* The booking calls and the admin call, any statement of which may fail
\* for an infrastructure reason, MaxFaults times in a behaviour.
Init == Setup /\ faults = 0
Next == BookNext \/ AdminNext
Spec == Init /\ [][Next]_vars

\* The same with the seat query beside them, on a store that does not fail.
InitSeats == Setup /\ faults = MaxFaults
NextSeats == BookNext \/ AdminNext \/ GetNext
SpecSeats == InitSeats /\ [][NextSeats]_vars

\* server.js, the generation that has the verify-booking route, with that
\* route beside the booking and admin calls, on a store that does not fail.
InitVerify == Setup /\ faults = MaxFaults /\ build = "server.js"
NextVerify == BookNext \/ AdminNext \/ VerifyNext
SpecVerify == InitVerify /\ [][NextVerify]_vars

\* server.js, the latest generation, with both admin session calls beside
\* the booking calls, on a store that does not fail.  The admin handlers of
\* server.ts and part_000 issue the same statements.
InitAdmin == Setup /\ faults = MaxFaults /\ build = "server.js"
NextAdmin == BookNext \/ AdminNext \/ AdminUpdateNext
SpecAdmin == InitAdmin /\ [][NextAdmin]_vars

\* ------------------------------------------------------------- properties
Arrived(r) == pc[r] # "idle"
Done(r) == pc[r] = "done"
Succeeded(r) == Done(r) /\ res[r].status = 200 /\ res[r].success
Failed(r) == Done(r) /\ ~res[r].success
SessionOf(r) == body[r].session_id.n
SeatsOf(r) == Range(body[r].seats)

\* The request passed BookingSchema and is a BookingRequest of the design:
\* its seats are a set, no label twice.
WellTyped(r) == BookingSchema(build, body[r]) = {} /\ Distinct(body[r].seats)

\* The committed rows call r created.
BookingRowsOf(r) ==
    IF committed[r] THEN {row \in bookings : row.id = bookingId[r]} ELSE {}
SeatRowsOf(r) ==
    IF committed[r] THEN {row \in booking_seats : row.booking_id = bookingId[r]} ELSE {}

\* a and b ran concurrently with each other and with no third call, on the
\* same session, none of their seats claimed when either arrived, and no
\* infrastructure failure hit them.
RacingPair(a, b) ==
    /\ a # b
    /\ Done(a) /\ Done(b)
    /\ conc[a] = {b} /\ conc[b] = {a}
    /\ WellTyped(a) /\ WellTyped(b)
    /\ SessionOf(a) = SessionOf(b)
    /\ SeatsOf(a) \cap pre[a].seats = {}
    /\ SeatsOf(b) \cap pre[b].seats = {}
    /\ ~faulted[a] /\ ~faulted[b]

\* C1: in every state, no two committed booking_seats rows have the same
\* (session_id, seat) pair.
C1_SeatUnique ==
    \A x, y \in booking_seats :
        (x.session_id = y.session_id /\ x.seat = y.seat) => x = y

\* Two calls raced for one seat of one session; one committed it and the
\* other's insert of it failed on the constraint.
C1_Witness ==
    \E a, b \in Requests :
        /\ RacingPair(a, b)
        /\ SeatsOf(a) \cap SeatsOf(b) # {}
        /\ committed[a] /\ ~committed[b]
        /\ error[b] = ConstraintError
        /\ SeatRowsOf(a) # {}

\* C2 (as claimed): of two concurrent valid calls on one session that share a
\* seat, exactly one commits and the other is answered with the seat
\* conflict: the error it caught is the UNIQUE violation.
C2_OneCommitsOtherConflicts ==
    \A a, b \in Requests :
        (RacingPair(a, b) /\ SeatsOf(a) \cap SeatsOf(b) # {})
        => \E w, l \in {a, b} :
               /\ w # l
               /\ committed[w] /\ Succeeded(w)
               /\ ~committed[l] /\ Failed(l)
               /\ error[l] = ConstraintError

\* C3: of two concurrent valid calls on one session whose seat lists are
\* disjoint, at least one does not fail.
C3_DisjointNotBothFail ==
    \A a, b \in Requests :
        (RacingPair(a, b) /\ SeatsOf(a) \cap SeatsOf(b) = {})
        => ~(Failed(a) /\ Failed(b))

\* Two calls with disjoint seats raced: one met the other's lock and failed
\* with SQLITE_BUSY, the other committed.
C3_Witness ==
    \E a, b \in Requests :
        /\ RacingPair(a, b)
        /\ SeatsOf(a) \cap SeatsOf(b) = {}
        /\ SeatsOf(a) # {} /\ SeatsOf(b) # {}
        /\ Succeeded(a)
        /\ Failed(b) /\ error[b] = BusyError

\* C4: every committed bookings row belongs to a call that committed, and
\* that call's booking_seats rows are the complete seat list of its request,
\* one row a seat, under its session; a call that did not commit has no row.
C4_AllSeatsOrNothing ==
    /\ \A r \in Requests :
           committed[r] =>
               /\ Cardinality(BookingRowsOf(r)) = 1
               /\ {row.seat : row \in SeatRowsOf(r)} = SeatsOf(r)
               /\ Cardinality(SeatRowsOf(r)) = Len(body[r].seats)
               /\ \A row \in SeatRowsOf(r) : row.session_id = SessionOf(r)
    /\ \A row \in bookings : \E r \in Requests : row \in BookingRowsOf(r)
    /\ \A row \in booking_seats : \E r \in Requests : row \in SeatRowsOf(r)

\* A call inserted its first seat, failed on its second, which another
\* booking had committed, and was rolled back.
C4_Witness ==
    \E r \in Requests :
        /\ Failed(r)
        /\ error[r] = ConstraintError
        /\ seatIx[r] = 2
        /\ Distinct(body[r].seats)
        /\ ~committed[r]
        /\ wlock = 0

\* C5 (as claimed): a call answered with an error has created no committed
\* row of bookings or booking_seats.
C5_ErrorLeavesNoRow ==
    \A r \in Requests :
        Failed(r) => BookingRowsOf(r) = {} /\ SeatRowsOf(r) = {}

\* C6 (as claimed): a valid call for an existing session and for a non-empty
\* set of seats none of which is claimed, run while no other call is open,
\* succeeds, and the seat query that follows it answers with exactly the
\* seats claimed before and the requested ones.
C6_BookThenSeats ==
    \A r \in Requests :
        ( /\ get.pc = "done" /\ get.after = r /\ ~get.faulted
          /\ get.id = SessionOf(r)
          /\ Done(r) /\ conc[r] = {} /\ ~faulted[r]
          /\ WellTyped(r)
          /\ pre[r].known
          /\ SeatsOf(r) # {}
          /\ SeatsOf(r) \cap pre[r].seats = {} )
        => /\ Succeeded(r)
           /\ get.res.status = 200
           /\ get.res.seats = pre[r].seats \cup SeatsOf(r)
           /\ get.res.rows = Cardinality(pre[r].seats \cup SeatsOf(r))

\* C7 (as claimed): a request with an empty seats list is rejected by
\* validation before BEGIN TRANSACTION, and no committed booking has zero seats.
C7_EmptySeatsRejected ==
    /\ \A r \in Requests :
           (Arrived(r) /\ Len(body[r].seats) = 0) =>
               /\ ~began[r]
               /\ Done(r) => (Failed(r) /\ "seats" \in res[r].details.issues)
    /\ \A row \in bookings : \E s \in booking_seats : s.booking_id = row.id

\* The response names the seat: the label is a word of its message.
Mentions(response, seat) == seat \in Range(response.details.text)

\* C8 (as claimed): the answer to a request rejected because one of its
\* seats is already claimed names that seat.
C8_ConflictNamesSeat ==
    \A r \in Requests :
        (Failed(r) /\ error[r] = ConstraintError)
        => Mentions(res[r], body[r].seats[seatIx[r]])

\* C9 (as claimed): a valid request whose session_id is the id of no
\* sessions row is answered with an error and inserts no row.
C9_UnknownSessionRejected ==
    \A r \in Requests :
        ( /\ Done(r) /\ WellTyped(r) /\ ~faulted[r] /\ conc[r] = {}
          /\ ~\E s \in sessions : s.id = SessionOf(r) )
        => Failed(r) /\ BookingRowsOf(r) = {} /\ SeatRowsOf(r) = {}

\* The caller can tell two responses apart without reading a message: by
\* the status, by the error field or by an error code field.
Distinguishable(x, y) ==
    x.status # y.status \/ x.error # y.error \/ x.details.code # y.details.code

\* C10 (as claimed): the answer to a call that failed on a seat conflict and
\* the answer to one that failed on an infrastructure error are distinguishable.
C10_ConflictDistinguishable ==
    \A a, b \in Requests :
        ( /\ Failed(a) /\ error[a] = ConstraintError
          /\ Failed(b) /\ error[b] \in {BusyError, IoError} )
        => Distinguishable(res[a], res[b])

\* C11: whenever a call whose seat insert violated UNIQUE(session_id, seat)
\* has sent its error response, its ROLLBACK has succeeded before and its
\* connection holds no lock and no uncommitted row.
C11_RollbackBeforeConflictResponse ==
    \A r \in Requests :
        (res[r] # NoResponse /\ error[r] = ConstraintError)
        => rolledBack[r] /\ wlock # r

\* A call that had inserted its booking met a claimed seat, was rolled back
\* and then answered with the error.
C11_Witness ==
    \E r \in Requests :
        /\ Failed(r)
        /\ error[r] = ConstraintError
        /\ bookingId[r] > 0
        /\ rolledBack[r]

\* The connection of call r is inside a transaction: BEGIN succeeded (the
\* flag is set there and reset by the COMMIT that succeeds) and no ROLLBACK
\* has succeeded.
TxnOpen(r) == transactionActive[r] /\ ~rolledBack[r]

\* The call is over: it has responded, or its handler has thrown.
Finished(r) == pc[r] \in {"done", "hung"}

\* C12 (as claimed): once a call has finished, by a response or by an
\* exception, its connection has no transaction open, also when ROLLBACK or
\* a later statement failed.
C12_TransactionClosed ==
    \A r \in Requests : Finished(r) => ~TxnOpen(r)

\* C13 (as claimed): a call answered with success has committed a booking
\* whose seat rows are not empty and are exactly the seats of its request.
C13_SuccessHasAllSeats ==
    \A r \in Requests :
        Succeeded(r) =>
            /\ committed[r]
            /\ SeatRowsOf(r) # {}
            /\ {row.seat : row \in SeatRowsOf(r)} = SeatsOf(r)
            /\ Cardinality(SeatRowsOf(r)) = Len(body[r].seats)

\* C14 (as claimed): the bookingSummary of a success response carries the id
\* of the bookings row the call inserted, the contact fields and session of
\* its request and the seat list of its request.
C14_SummaryMatchesRequest ==
    \A r \in Requests :
        Succeeded(r) =>
            res[r].bookingSummary =
                [booking_id |-> bookingId[r], name |-> body[r].name.s,
                 email |-> body[r].email.s, phone_number |-> body[r].phone_number.s,
                 session_id |-> body[r].session_id.n, seats |-> body[r].seats]

\* C15 (as claimed): a request that fails validation is answered with status
\* 400 and the list of the fields that failed, and no BEGIN, INSERT, COMMIT
\* or ROLLBACK is issued for it.
C15_InvalidGets400 ==
    \A r \in Requests :
        (Done(r) /\ BookingSchema(build, body[r]) # {}) =>
            /\ res[r].status = 400
            /\ res[r].details.issues = BookingSchema(build, body[r])
            /\ ~began[r] /\ bookingId[r] = 0 /\ ~committed[r] /\ ~rolledBack[r]

\* The BookingRequest typing of the design: a positive session id, a
\* non-empty name, a valid email, a non-empty phone number and a non-empty
\* collection of distinct non-empty seat labels.
IsBookingRequest(b) ==
    /\ b.session_id.t = "number" /\ b.session_id.n >= 1
    /\ b.name.t = "string" /\ Len(b.name.s) >= 1
    /\ b.email.t = "string" /\ IsEmail(b.email.s)
    /\ b.phone_number.t = "string" /\ Len(b.phone_number.s) >= 1
    /\ Len(b.seats) >= 1
    /\ Distinct(b.seats)
    /\ \A i \in 1..Len(b.seats) : Len(b.seats[i]) >= 1

\* C16 (as claimed): BookingSchema.parse accepts a payload (the handler goes
\* on to BEGIN) exactly when it is a BookingRequest, and throws a ZodError
\* exactly when it is not.
C16_ValidatorAcceptsExactlyTyped ==
    \A r \in Requests :
        /\ began[r] => IsBookingRequest(body[r])
        /\ error[r].name = "ZodError" => ~IsBookingRequest(body[r])

\* C17: the seats a seat query has read are the seats of the booking_seats
\* rows of some set of committed bookings of that session, one per row and
\* each booking's rows all or none: no seat of an uncommitted or rolled back
\* booking is among them; the 200 response carries exactly those seats.
C17_SeatsOfCommittedBookings ==
    (get.pc \in {"session", "movie", "done"} /\ ~get.faulted) =>
        /\ \E B \in SUBSET {r \in Requests : committed[r] /\ SessionOf(r) = get.id} :
               LET rows == UNION {SeatRowsOf(b) : b \in B}
               IN  /\ get.seats = {row.seat : row \in rows}
                   /\ get.rows = Cardinality(rows)
        /\ (get.pc = "done" /\ get.res.status = 200) =>
               get.res.seats = get.seats /\ get.res.rows = get.rows

\* The query ran while a booking of its session had an uncommitted seat row;
\* that booking was rolled back after its first seat, which the answer does
\* not show.
C17_Witness ==
    /\ get.pc = "done" /\ get.res.status = 200 /\ get.dirty
    /\ \E r \in Requests :
           /\ SessionOf(r) = get.id
           /\ rolledBack[r] /\ seatIx[r] = 2
           /\ body[r].seats[1] \notin get.res.seats

\* C18: a seat query whose reads succeed answers 404 when no sessions row
\* has the id, 404 when the row's movie_id is the id of no movie, and
\* otherwise 200 with the seats it read, the sessions row and its movie.
C18_SeatsStatus ==
    [][ (get.pc # "done" /\ get'.pc = "done" /\ ~get'.faulted) =>
            LET found == {s \in sessions : s.id = get'.id}
                hasMovie == \E s \in found : \E m \in movies : m.id = s.movie_id
            IN  /\ found = {} => get'.res.status = 404
                /\ (found # {} /\ ~hasMovie) => get'.res.status = 404
                /\ (found # {} /\ hasMovie) =>
                       /\ get'.res.status = 200
                       /\ get'.res.sessionDetails \in found
                       /\ get'.res.movieDetails = get'.res.sessionDetails.movie_id
                       /\ get'.res.seats = get.seats
                /\ get'.res.status \in {200, 404} ]_vars

\* The query found the session and not its movie.
C18_Witness ==
    /\ get.pc = "done" /\ get.res.status = 404 /\ get.res.error = "Movie not found"
    /\ \E s \in sessions : s.id = get.id /\ ~\E m \in movies : m.id = s.movie_id

\* The verify-booking call has answered, its reads succeeded and its
\* parameter was a number.
Verified == verify.pc = "done" /\ ~verify.faulted /\ verify.res.status # 400

\* C19 (as claimed): a verify-booking call made after a POST /book call was
\* answered with success, for the booking_id of that call's summary, answers
\* with the name, email, phone number and seat set of the summary and with
\* the booking's session and that session's movie.
C19_VerifyMatchesSummary ==
    \A r \in Requests :
        ( /\ Verified /\ r \in verify.after
          /\ verify.bookingId = res[r].bookingSummary.booking_id )
        => /\ verify.res.status = 200
           /\ verify.res.booking.name = res[r].bookingSummary.name
           /\ verify.res.booking.email = res[r].bookingSummary.email
           /\ verify.res.booking.phone_number = res[r].bookingSummary.phone_number
           /\ Range(verify.res.booking.seats) = Range(res[r].bookingSummary.seats)
           /\ verify.res.booking.session.id = res[r].bookingSummary.session_id
           /\ \E m \in movies : m.id = verify.res.booking.session.movie_id
                                /\ m.id = verify.res.booking.movie

\* The stage of the join at which the id of the verify-booking call finds
\* nothing, if any: the bookings row, its session, the session's movie.
VerifyFound ==
    LET b == {row \in bookings : row.id = verify.bookingId}
        ss == {x \in sessions : \E row \in b : x.id = row.session_id}
        ms == {m \in movies : \E x \in ss : m.id = x.movie_id}
    IN  b # {} /\ ss # {} /\ ms # {}

\* C20 (as claimed): verify-booking answers 404 when no booking has the id,
\* when the booking's session does not exist and when the session's movie
\* does not exist, and it answers 404 for the id of every booking whose
\* transaction was rolled back.
C20_VerifyNotFound ==
    Verified =>
        /\ ~VerifyFound => verify.res.status = 404
        /\ \A r \in Requests :
               (rolledBack[r] /\ bookingId[r] > 0 /\ bookingId[r] = verify.bookingId)
               => verify.res.status = 404

\* C20 (amended): verify-booking answers 404 when no committed booking has
\* the id, when the booking's session does not exist and when the session's
\* movie does not exist; for an id that a rolled back booking had obtained
\* it answers 404 unless another call has committed a booking under that
\* same id, and then it answers with that call's booking.
C20_VerifyNotFoundUnlessReused ==
    Verified =>
        /\ ~VerifyFound => verify.res.status = 404
        /\ \A r \in Requests :
               ( /\ rolledBack[r] /\ bookingId[r] > 0
                 /\ bookingId[r] = verify.bookingId
                 /\ verify.res.status # 404 )
               => \E q \in Requests \ {r} :
                      /\ committed[q] /\ bookingId[q] = verify.bookingId
                      /\ verify.res.status = 200
                      /\ verify.res.booking.id = bookingId[q]
                      /\ Range(verify.res.booking.seats) = SeatsOf(q)

\* A booking obtained an id and was rolled back; verify-booking for that id
\* found no booking.
C20_Witness ==
    /\ Verified
    /\ verify.res.status = 404 /\ verify.res.error = "Booking not found"
    /\ \E r \in Requests :
           rolledBack[r] /\ bookingId[r] > 0 /\ bookingId[r] = verify.bookingId

\* C21: no step of the system changes or removes a committed bookings row
\* or booking_seats row: both tables only grow.
C21_RowsOnlyGrow ==
    [][bookings \subseteq bookings' /\ booking_seats \subseteq booking_seats']_vars

\* A booking of session 1 is committed; a later booking was rolled back and
\* session 1 has been moved to another time by PUT /admin/sessions/1.
C21_Witness ==
    \E a, b \in Requests :
        /\ committed[a] /\ SessionOf(a) = 1
        /\ BookingRowsOf(a) # {} /\ SeatRowsOf(a) # {}
        /\ rolledBack[b] /\ bookingId[b] > bookingId[a]
        /\ \E x \in sessions : x.id = 1 /\ x.time = "12:00"

SlotsUnique(rows) ==
    \A x, y \in rows :
        (x.hall_no = y.hall_no /\ x.date = y.date /\ x.time = y.time) => x = y

\* C22: before and after every step no two sessions rows have the same
\* (hall_no, date, time), and a POST or PUT admin call whose row would take
\* the slot of another row is answered with an error and leaves the
\* sessions table as it was.
C22_SlotsStayUnique ==
    [][ /\ SlotsUnique(sessions) /\ SlotsUnique(sessions')
        /\ \A m \in MovieIds \cup {2}, h \in Halls, d \in Dates, t \in Times :
               (SlotTaken(sessions, h, d, t) /\ AdminAddSession(m, h, d, t))
               => adminRes'.status \notin {0, 200} /\ sessions' = sessions
        /\ \A id \in SessionIds, m \in MovieIds, h \in Halls, d \in Dates, t \in Times :
               ( /\ \E x \in sessions : x.id = id
                 /\ SlotTaken({x \in sessions : x.id # id}, h, d, t)
                 /\ AdminUpdateSession(id, m, h, d, t) )
               => adminRes'.status \notin {0, 200} /\ sessions' = sessions ]_vars

\* With no booking ever started (no lock was ever held) and two sessions in
\* the table, an admin call was answered with the error of the constraint.
C22_Witness ==
    /\ \A r \in Requests : pc[r] = "idle"
    /\ Cardinality(sessions) = 2
    /\ adminRes.status = AdminErrorStatus

\* C23 (as claimed): whenever no POST /book call is in flight, the bookings
\* table holds as many rows as calls were answered with success.
C23_BookingsCountSuccesses ==
    (\A r \in Requests : ~InFlight(r)) =>
        Cardinality(bookings) = Cardinality({r \in Requests : Succeeded(r)})

\* C24: every committed booking_seats row has the id of a committed
\* bookings row as its booking_id, and that row's session_id as its own.
C24_SeatRowsHaveBooking ==
    \A x \in booking_seats :
        \E b \in bookings : b.id = x.booking_id /\ b.session_id = x.session_id

\* Two bookings of different sessions are committed with their seats, and a
\* third call that had inserted a seat was rolled back.
C24_Witness ==
    /\ \E x, y \in booking_seats :
           x.session_id # y.session_id /\ x.booking_id # y.booking_id
    /\ Cardinality(bookings) = 2

\* ROLLBACK was issued by call r: it succeeded, or it rejected and the
\* handler threw with the flag still set.
RollbackIssued(r) == rolledBack[r] \/ (pc[r] = "hung" /\ transactionActive[r])

\* BEGIN TRANSACTION of call r succeeded: the flag is set right after it and
\* is reset only after the COMMIT that succeeds.
BeginSucceeded(r) == transactionActive[r] \/ committed[r]

\* C25: a finished call has issued ROLLBACK exactly when its BEGIN
\* succeeded and its COMMIT did not: never after validation or BEGIN failed,
\* never after a COMMIT that succeeded, whatever fails later.
C25_RollbackExactly ==
    \A r \in Requests :
        Finished(r) =>
            /\ RollbackIssued(r) <=> (BeginSucceeded(r) /\ ~committed[r])
            /\ (~began[r] \/ committed[r]) => ~RollbackIssued(r)

\* server.js: a statement after the COMMIT that succeeded failed, and the
\* call answered with the error without a ROLLBACK.
C25_Witness ==
    \E r \in Requests :
        /\ Failed(r) /\ committed[r] /\ faulted[r]
        /\ error[r] = IoError
        /\ ~RollbackIssued(r)

\* C26 (as claimed): a call that has finished, on whatever path, has sent a
\* response.
C26_AlwaysResponds ==
    \A r \in Requests : Finished(r) => res[r] # NoResponse

\* The index at which a seat list repeats a label for the first time.
SecondAt(q) ==
    CHOOSE j \in 1..Len(q) :
        /\ \E i \in 1..(j - 1) : q[i] = q[j]
        /\ \A k \in 1..(j - 1) : \A i \in 1..(k - 1) : q[i] # q[k]

\* C27: a request that passes validation and lists a seat label twice goes
\* on to BEGIN and never commits; when it has answered, the answer is an
\* error sent after ROLLBACK, and if its seats were unclaimed and no other
\* writer held the lock, the error is the UNIQUE violation of the second
\* insert of the repeated label.
C27_DuplicateSeatRejected ==
    \A r \in Requests :
        ( /\ Arrived(r) /\ ~faulted[r]
          /\ BookingSchema(build, body[r]) = {}
          /\ ~Distinct(body[r].seats) )
        => /\ began[r] /\ ~committed[r]
           /\ Done(r) =>
                  /\ Failed(r) /\ rolledBack[r] /\ wlock # r
                  /\ error[r] \in {ConstraintError, BusyError}
                  /\ ( /\ error[r] = ConstraintError
                       /\ \A i \in 1..(SecondAt(body[r].seats) - 1) :
                              ~SeatTaken(booking_seats, SessionOf(r), body[r].seats[i]) )
                     => seatIx[r] = SecondAt(body[r].seats)

\* With no seat claimed at all, a call that listed one label twice failed on
\* its second insert and was rolled back.
C27_Witness ==
    \E r \in Requests :
        /\ Done(r) /\ ~Distinct(body[r].seats)
        /\ booking_seats = {} /\ bookings = {}
        /\ error[r] = ConstraintError /\ seatIx[r] = 2
        /\ rolledBack[r] /\ Failed(r)

\* C28 (as claimed): two valid calls for two different existing sessions
\* that run concurrently, their seats unclaimed, both commit and succeed.
C28_OtherSessionUnaffected ==
    \A a, b \in Requests :
        ( /\ a # b /\ Done(a) /\ Done(b)
          /\ conc[a] = {b} /\ conc[b] = {a}
          /\ WellTyped(a) /\ WellTyped(b)
          /\ SessionOf(a) # SessionOf(b)
          /\ pre[a].known /\ pre[b].known
          /\ SeatsOf(a) # {} /\ SeatsOf(b) # {}
          /\ ~faulted[a] /\ ~faulted[b] )
        => /\ committed[a] /\ Succeeded(a)
           /\ committed[b] /\ Succeeded(b)

\* The success response of call r carries a booking summary.
HasSummary(r) == Succeeded(r) /\ res[r].bookingSummary # NoSummary

\* C29: the booking_id of every returned summary is the id the call's own
\* insert obtained, the id of the bookings row the call committed, and no
\* two summaries carry the same booking_id.
C29_ReturnedIdsDistinct ==
    \A a \in Requests :
        HasSummary(a) =>
            /\ committed[a]
            /\ res[a].bookingSummary.booking_id = bookingId[a]
            /\ \E row \in bookings :
                   /\ row.id = res[a].bookingSummary.booking_id
                   /\ row.session_id = SessionOf(a)
                   /\ row.name = body[a].name.s
            /\ \A b \in Requests \ {a} :
                   HasSummary(b) =>
                       res[b].bookingSummary.booking_id # res[a].bookingSummary.booking_id

\* A call obtained an id and was rolled back; another call then obtained the
\* same id, committed and returned it.
C29_Witness ==
    \E a, b \in Requests :
        /\ a # b
        /\ HasSummary(a)
        /\ rolledBack[b] /\ bookingId[b] = res[a].bookingSummary.booking_id

====
